---------------------------- MODULE Spec2Model ----------------------------
(***************************************************************************)
(* Verification model of the concurrency and protocol code that the        *)
(* claude-telegram-bot patch scripts install:                              *)
(*   - the media queue of patch-queue.py (mediaQueueBusy/mediaQueueWaiting)*)
(*   - the promise-chain media queue of setup-poller-independence.py       *)
(*   - the task poller (lockfile, safe mode, exit codes, launchd)          *)
(*   - the Memory Gateway exec handlers (task_queue)                       *)
(*   - the Stop hook (stop-self-validation.py) and nightly-guard.py        *)
(*   - the apply-patches scripts (patch_file)                              *)
(*   - ai-media.py: comfyui_queue_and_wait and the FLUX workflow builders  *)
(* Each subsystem has its own next-state relation and specification; the   *)
(* variables of the other subsystems stay at their initial values.         *)
(***************************************************************************)
EXTENDS Integers, Sequences, FiniteSets, TLC

VARIABLES
  \* ---- patch-queue.py: withMediaQueue (busy flag + waiting array)
  mediaQueueBusy,     \* let mediaQueueBusy
  mediaQueueWaiting,  \* const mediaQueueWaiting (sequence of call ids)
  qpc,                \* position of every withMediaQueue call
  qPromise,           \* state of the promise every call returned
  \* ---- setup-poller-independence.py: withMediaQueue (promise chain)
  mediaQueueChain,    \* let _mediaQueueChain: 0 is the initial resolved
                      \* promise, c the promise call c created
  chainPrev,          \* const prev of every call
  chainUnlocked,      \* whether the promise call c created is resolved
  cpc,                \* position of every call
  cPromise,           \* state of the promise every call returned
  callOrder,          \* history: calls in the order withMediaQueue ran
  startOrder,         \* history: calls in the order their fn started
  \* ---- scripts/stop-self-validation.py (Stop hook)
  counterFile,        \* /tmp/stop-validation-count: <<>> when absent,
                      \* <<n>> when it holds the number n
  sessionFile,        \* /tmp/stop-validation-session: "absent" or an id
  stopRun,            \* the last invocation: its inputs, the retry count
                      \* it read (if it read one) and what it printed
                      \* (decision "none" before any invocation)
  blocksInRow,        \* history: 'block' outputs since the last allow
  \* ---- scripts/nightly-guard.py (PreToolUse hook)
  nightlyMode,        \* whether /tmp/nightly-mode exists
  guardRun,           \* the last run of the hook: its stdin, whether
                      \* /tmp/nightly-mode existed, and its exit status
  \* ---- task-poller.ts (POLLER_CODE of setup-poller-independence.py)
  proc,               \* every poller process: its position (pc), pid,
                      \* the pid it read from the lock (readPid), its
                      \* errorTimestamps, the task it holds (task, 0 for
                      \* none) with its exit code, and how it ended (exit)
  lockFile,           \* LOCK_PATH: <<>> when absent, else <<[pid, token]>>
  tmpLock,            \* LOCK_PATH + '.tmp', likewise
  nextPid,            \* the pid the next process started will get
  now,                \* Date.now() on the poller's machine
  cycles,             \* history: per process, the failed poll cycles
                      \* since its last successful one (where tracked)
  \* ---- Memory Gateway exec handlers (patch-memory-gateway.py)
  taskQueue,          \* table task_queue: per task id its row
  gwClock,            \* Date.now() on the gateway
  gwLast,             \* history: the last handler run and its response
  run,                \* the POST /v1/exec/run request: the position of
                      \* handleExecRun, its task id, Date.now() - startTime
                      \* and its response
  \* ---- apply-patches.py, apply-patches-v2.py, apply-patches-v3.py
  files,              \* the target files: <<>> when missing, else
                      \* <<content>>
  errors,             \* the list errors (the labels' patch numbers)
  patchPc,            \* the number of the next patch_file call (0 before
                      \* the script is started)
  patchScript,        \* the script run: the target of each of its calls
  patchExit,          \* the script's exit status and how it came about
  lastPatch,          \* history: the last patch_file call
  \* ---- scripts/ai-media.py: comfyui_queue_and_wait
  comfy,              \* the call: its position, how it ended, the seconds
                      \* since start, the POSTs made, whether ws is closed
  received,           \* history: the messages ws.recv() has returned
  \* ---- scripts/ai-media.py: build_flux_*_workflow
  workflow,           \* the dict returned: node id -> node
  wfInput             \* the builder called and its arguments

queueVars == <<mediaQueueBusy, mediaQueueWaiting, qpc, qPromise>>
chainVars == <<mediaQueueChain, chainPrev, chainUnlocked, cpc, cPromise,
               callOrder, startOrder>>

stopVars == <<counterFile, sessionFile, stopRun, blocksInRow>>

guardVars == <<nightlyMode, guardRun>>
pollerVars == <<proc, lockFile, tmpLock, nextPid, now, cycles>>
gatewayVars == <<taskQueue, gwClock, gwLast>>
runVars == <<run>>
patchVars == <<files, errors, patchPc, patchScript, patchExit, lastPatch>>
comfyVars == <<comfy, received>>
workflowVars == <<workflow, wfInput>>

vars == <<queueVars, chainVars, stopVars, guardVars, pollerVars, gatewayVars,
          runVars, patchVars, comfyVars, workflowVars>>

\* What the actions of one subsystem leave alone.
notWorkflow == <<queueVars, chainVars, stopVars, guardVars, pollerVars,
                 gatewayVars, runVars, patchVars, comfyVars>>
notComfy == <<queueVars, chainVars, stopVars, guardVars, pollerVars,
              gatewayVars, runVars, patchVars,
             workflowVars>>
notRun == <<queueVars, chainVars, stopVars, guardVars, patchVars, comfyVars,
             workflowVars>>
notPatch == <<queueVars, chainVars, stopVars, guardVars, pollerVars,
              gatewayVars, runVars, comfyVars,
             workflowVars>>
notExec == <<notRun, runVars>>
notQueue == <<chainVars, stopVars, guardVars, pollerVars, gatewayVars, runVars,
             patchVars, comfyVars,
             workflowVars>>
notChain == <<queueVars, stopVars, guardVars, pollerVars, gatewayVars, runVars,
             patchVars, comfyVars,
             workflowVars>>
notStop == <<queueVars, chainVars, guardVars, pollerVars, gatewayVars, runVars,
             patchVars, comfyVars,
             workflowVars>>
notGuard == <<queueVars, chainVars, stopVars, pollerVars, gatewayVars, runVars,
             patchVars, comfyVars,
             workflowVars>>

(***************************************************************************)
(*                 patch-queue.py : withMediaQueue                         *)
(***************************************************************************)
\* Number of withMediaQueue calls made in a behaviour.
NumCalls == 4
Calls == 1..NumCalls

\* The two ways a wrapped function (or a promise) settles.
Outcomes == {"resolved", "rejected"}

\* Calls whose wrapped function (runAiMedia) is executing right now.
QExecuting == {c \in Calls : qpc[c] \in {"running", "nextRunning"}}

QInit ==
  /\ mediaQueueBusy = FALSE
  /\ mediaQueueWaiting = <<>>
  /\ qpc = [c \in Calls |-> "idle"]
  /\ qPromise = [c \in Calls |-> "none"]

\* withMediaQueue(fn), lines 24-29: the synchronous part of the call.
\* Busy: the call is parked in mediaQueueWaiting and a pending promise is
\* returned.  Not busy: the flag is taken and fn() is called at once.
QCall(c) ==
  /\ qpc[c] = "idle"
  /\ IF mediaQueueBusy
       THEN /\ mediaQueueWaiting' = Append(mediaQueueWaiting, c)
            /\ qpc' = [qpc EXCEPT ![c] = "waiting"]
            /\ UNCHANGED mediaQueueBusy
       ELSE /\ mediaQueueBusy' = TRUE
            /\ qpc' = [qpc EXCEPT ![c] = "running"]
            /\ UNCHANGED mediaQueueWaiting
  /\ qPromise' = [qPromise EXCEPT ![c] = "pending"]
  /\ UNCHANGED notQueue

\* The promise of fn() (line 29) settles; the continuation of the await is
\* a microtask that has not run yet.
QFnSettle(c) ==
  /\ qpc[c] = "running"
  /\ \E o \in Outcomes : qpc' = [qpc EXCEPT ![c] = o]
  /\ UNCHANGED <<mediaQueueBusy, mediaQueueWaiting, qPromise>>
  /\ UNCHANGED notQueue

\* A slip of the hand-off: the flag is released although the next function
\* has just been started.
QFinallyReleasing(c) ==
  /\ qpc[c] \in Outcomes
  /\ qPromise' = [qPromise EXCEPT ![c] = qpc[c]]
  /\ mediaQueueBusy' = FALSE
  /\ IF mediaQueueWaiting # <<>>
       THEN /\ mediaQueueWaiting' = Tail(mediaQueueWaiting)
            /\ qpc' = [qpc EXCEPT ![c] = "done",
                                  ![Head(mediaQueueWaiting)] = "nextRunning"]
       ELSE /\ qpc' = [qpc EXCEPT ![c] = "done"]
            /\ UNCHANGED mediaQueueWaiting
  /\ UNCHANGED notQueue

\* The finally block, lines 30-34, followed by the settling of the call's
\* own promise with fn's outcome: shift the first waiting entry; if there
\* is one its run() is called at once and the flag stays set, otherwise
\* the flag is released.
QFinally(c) ==
  /\ qpc[c] \in Outcomes
  /\ qPromise' = [qPromise EXCEPT ![c] = qpc[c]]
  /\ IF mediaQueueWaiting # <<>>
       THEN /\ mediaQueueWaiting' = Tail(mediaQueueWaiting)
            /\ qpc' = [qpc EXCEPT ![c] = "done",
                                  ![Head(mediaQueueWaiting)] = "nextRunning"]
            /\ UNCHANGED mediaQueueBusy
       ELSE /\ mediaQueueBusy' = FALSE
            /\ qpc' = [qpc EXCEPT ![c] = "done"]
            /\ UNCHANGED mediaQueueWaiting
  /\ UNCHANGED notQueue

\* next.run() (line 32) settles; .then(next.resolve, next.reject) is queued.
QNextSettle(c) ==
  /\ qpc[c] = "nextRunning"
  /\ \E o \in Outcomes :
       qpc' = [qpc EXCEPT ![c] = IF o = "resolved" THEN "nextResolved"
                                                    ELSE "nextRejected"]
  /\ UNCHANGED <<mediaQueueBusy, mediaQueueWaiting, qPromise>>
  /\ UNCHANGED notQueue

\* .then(next.resolve, next.reject), line 32: the parked promise settles.
QNextThen(c) ==
  /\ qpc[c] \in {"nextResolved", "nextRejected"}
  /\ qPromise' = [qPromise EXCEPT ![c] =
                    IF qpc[c] = "nextResolved" THEN "resolved" ELSE "rejected"]
  /\ qpc' = [qpc EXCEPT ![c] = "nextThen"]
  /\ UNCHANGED <<mediaQueueBusy, mediaQueueWaiting>>
  /\ UNCHANGED notQueue

\* .finally(() => { mediaQueueBusy = false; }), line 32.
QNextFinally(c) ==
  /\ qpc[c] = "nextThen"
  /\ mediaQueueBusy' = FALSE
  /\ qpc' = [qpc EXCEPT ![c] = "done"]
  /\ UNCHANGED <<mediaQueueWaiting, qPromise>>
  /\ UNCHANGED notQueue

QNext ==
  \E c \in Calls :
    \/ QCall(c)
    \/ QFnSettle(c)
    \/ QFinally(c)
    \/ QNextSettle(c)
    \/ QNextThen(c)
    \/ QNextFinally(c)

(***************************************************************************)
(*        setup-poller-independence.py : withMediaQueue (chain)            *)
(***************************************************************************)
CInit ==
  /\ mediaQueueChain = 0
  /\ chainPrev = [c \in Calls |-> 0]
  /\ chainUnlocked = [c \in Calls |-> FALSE]
  /\ cpc = [c \in Calls |-> "idle"]
  /\ cPromise = [c \in Calls |-> "none"]
  /\ callOrder = <<>>
  /\ startOrder = <<>>

\* Whether the promise `prev` of call c is resolved (the initial
\* Promise.resolve() is; the others are once their unlock() has run).
PrevResolved(c) ==
  IF chainPrev[c] = 0 THEN TRUE ELSE chainUnlocked[chainPrev[c]]

\* withMediaQueue(fn), lines 72-76: the synchronous part.  prev is the
\* current tail of the chain, the new tail is a promise only this call's
\* unlock resolves, and the work is chained behind prev.
CCall(c) ==
  /\ cpc[c] = "idle"
  /\ chainPrev' = [chainPrev EXCEPT ![c] = mediaQueueChain]
  /\ mediaQueueChain' = c
  /\ cpc' = [cpc EXCEPT ![c] = "chained"]
  /\ cPromise' = [cPromise EXCEPT ![c] = "pending"]
  /\ callOrder' = Append(callOrder, c)
  /\ UNCHANGED <<chainUnlocked, startOrder>>
  /\ UNCHANGED notChain

\* A slip: the work is started without being chained behind prev.
CStartUnchained(c) ==
  /\ cpc[c] = "chained"
  /\ cpc' = [cpc EXCEPT ![c] = "running"]
  /\ startOrder' = Append(startOrder, c)
  /\ UNCHANGED <<mediaQueueChain, chainPrev, chainUnlocked, cPromise,
                 callOrder>>
  /\ UNCHANGED notChain

\* prev.catch(() => {}).then(async () => { ... fn() ... }), lines 76-78:
\* the callback runs once prev is resolved and calls fn().
CStart(c) ==
  /\ cpc[c] = "chained"
  /\ PrevResolved(c)
  /\ cpc' = [cpc EXCEPT ![c] = "running"]
  /\ startOrder' = Append(startOrder, c)
  /\ UNCHANGED <<mediaQueueChain, chainPrev, chainUnlocked, cPromise,
                 callOrder>>
  /\ UNCHANGED notChain

\* The promise of fn() (line 78) settles.
CFnSettle(c) ==
  /\ cpc[c] = "running"
  /\ \E o \in Outcomes : cpc' = [cpc EXCEPT ![c] = o]
  /\ UNCHANGED <<mediaQueueChain, chainPrev, chainUnlocked, cPromise,
                 callOrder, startOrder>>
  /\ UNCHANGED notChain

\* finally { unlock!(); }, lines 79-81, and the settling of the returned
\* promise with fn's outcome.
CFinally(c) ==
  /\ cpc[c] \in Outcomes
  /\ chainUnlocked' = [chainUnlocked EXCEPT ![c] = TRUE]
  /\ cPromise' = [cPromise EXCEPT ![c] = cpc[c]]
  /\ cpc' = [cpc EXCEPT ![c] = "done"]
  /\ UNCHANGED <<mediaQueueChain, chainPrev, callOrder, startOrder>>
  /\ UNCHANGED notChain

CNext ==
  \E c \in Calls :
    \/ CCall(c)
    \/ CStart(c)
    \/ CFnSettle(c)
    \/ CFinally(c)

(***************************************************************************)
(*                 scripts/stop-self-validation.py                         *)
(***************************************************************************)
MAX_RETRIES == 3
CODE_EXTENSIONS == {".ts", ".js", ".py", ".sh", ".json", ".md"}
banned_patterns ==
  <<"ANTHROPIC_API_KEY", "OPENAI_API_KEY", "GEMINI_API_KEY", "sk-ant-",
    "sk-proj-">>

\* Longest run of consecutive 'block' outputs a behaviour is followed for.
MaxBlockRun == 4

\* Hook input on stdin: not JSON, JSON without session_id, or JSON with one.
StopStdin == {"garbage", "nosession", "s1", "s2"}
\* Output of the two `git diff --name-only` runs: the suffixes of the
\* changed files, or "error" when git raises (not a repository, timeout).
ChangedFileSets ==
  [error : {FALSE}, files : SUBSET {".ts", ".png"}]
    \cup {[error |-> TRUE, files |-> {}]}
\* Lines of `git diff HEAD`: how the line starts and the banned patterns
\* it contains.  "+++ " is the header line of a changed file.
DiffLines ==
  { [start |-> "+",    has |-> {"OPENAI_API_KEY"}],
    [start |-> "-",    has |-> {"GEMINI_API_KEY", "sk-proj-"}],
    [start |-> "+++ ", has |-> {"sk-ant-"}] }
Diffs ==
  [error : {FALSE}, lines : SUBSET DiffLines]
    \cup {[error |-> TRUE, lines |-> {}]}
\* `bun test`: exit 0, exit # 0, TimeoutExpired, or any other exception
\* (bun cannot be run).
TestOutcomes == {"pass", "fail", "timeout", "error"}

\* get_session_id, lines 21-27.
get_session_id(stdin) ==
  IF stdin \in {"garbage", "nosession"} THEN "unknown" ELSE stdin

\* get_retry_count, lines 30-47: the count it returns ...
get_retry_count(session_id) ==
  IF sessionFile # "absent" /\ sessionFile # session_id
    THEN 0
    ELSE IF counterFile # <<>> THEN counterFile[1] ELSE 0

\* ... and the two files as it leaves them.
CounterAfterGet(session_id) ==
  IF sessionFile # "absent" /\ sessionFile # session_id
    THEN <<0>> ELSE counterFile
SessionAfterGet(session_id) ==
  IF sessionFile # "absent" /\ sessionFile = session_id
    THEN sessionFile ELSE session_id

\* has_code_changes, lines 66-91.
has_code_changes(changed) ==
  IF changed.error THEN FALSE
  ELSE \E f \in changed.files : f \in CODE_EXTENSIONS

\* line.startswith("+"), line 115.
StartsWithPlus(line) == line.start \in {"+", "+++ "}

\* check_banned_keywords, lines 94-120: the patterns found, in the order
\* of banned_patterns.
check_banned_keywords(diff) ==
  IF diff.error THEN <<>>
  ELSE LET Found(p) ==
             \E line \in diff.lines : StartsWithPlus(line) /\ p \in line.has
       IN SelectSeq(banned_patterns, Found)

\* A slip: a runner that did not report success is taken for a pass.
run_tests_lenient(outcome) == outcome # "timeout"

\* run_tests, lines 123-144: the success flag.
run_tests(outcome) == outcome \in {"pass", "error"}

SInit ==
  /\ counterFile = <<>>
  /\ sessionFile = "absent"
  /\ stopRun = [session_id |-> "unknown",
                changed |-> [error |-> FALSE, files |-> {}],
                diff |-> [error |-> FALSE, lines |-> {}],
                tests |-> "pass", counted |-> FALSE, count |-> 0,
                decision |-> "none"]
  /\ blocksInRow = 0

\* The decision of main, lines 147-190, on a retry count and the inputs.
StopDecision(count, changed, diff, tests) ==
  IF ~has_code_changes(changed) THEN "allow"
  ELSE IF count >= MAX_RETRIES THEN "allow"
  ELSE IF check_banned_keywords(diff) # <<>> THEN "block"
  ELSE IF ~run_tests(tests) THEN "block"
  ELSE "allow"

\* One run of the Stop hook: main, lines 147-190, with everything it calls.
StopHook(stdin, changed, diff, tests) ==
  LET session_id == get_session_id(stdin)
      hasChanges == has_code_changes(changed)
      count      == get_retry_count(session_id)
      decision   == StopDecision(count, changed, diff, tests)
  IN
  /\ blocksInRow <= MaxBlockRun
  /\ sessionFile' = IF hasChanges THEN SessionAfterGet(session_id)
                                  ELSE sessionFile
  /\ counterFile' = IF decision = "block"
                      THEN <<count + 1>>   \* increment_retry(count)
                      ELSE <<0>>           \* reset_retry()
  /\ stopRun' = [session_id |-> session_id, changed |-> changed,
                 diff |-> diff, tests |-> tests,
                 counted |-> hasChanges,
                 count |-> IF hasChanges THEN count ELSE 0,
                 decision |-> decision]
  /\ blocksInRow' = IF decision = "block" THEN blocksInRow + 1 ELSE 0
  /\ UNCHANGED notStop

SNext ==
  \E stdin \in StopStdin, changed \in ChangedFileSets, diff \in Diffs,
     tests \in TestOutcomes :
    StopHook(stdin, changed, diff, tests)

(***************************************************************************)
(*                      scripts/nightly-guard.py                           *)
(***************************************************************************)
\* The regular expressions of BLOCKED_PATTERNS, lines 12-38, in order.  An
\* element is a literal character, or "\\s+", "\\s" or ".*".
BLOCKED_PATTERNS ==
  <<<<"r", "m", "\\s+", "-", "r", "f", "\\s+", "/">>,
    <<"r", "m", "\\s+", "-", "r", "f", "\\s+", "~">>,
    <<"r", "m", "\\s+", "-", "r", "f", "\\s+", ".", "\\s">>,
    <<"g", "i", "t", "\\s+", "p", "u", "s", "h">>,
    <<"g", "i", "t", "\\s+", "r", "e", "s", "e", "t", "\\s+", "-", "-", "h", "a", "r", "d">>,
    <<"g", "i", "t", "\\s+", "c", "l", "e", "a", "n", "\\s+", "-", "f", "d">>,
    <<"g", "i", "t", "\\s+", "c", "h", "e", "c", "k", "o", "u", "t", "\\s+", "-", "-", "\\s+", ".">>,
    <<"k", "i", "l", "l", "\\s+", "-", "9">>,
    <<"p", "k", "i", "l", "l">>,
    <<"l", "a", "u", "n", "c", "h", "c", "t", "l">>,
    <<"r", "e", "s", "t", "a", "r", "t", "-", "b", "o", "t", ".", "s", "h">>,
    <<".", "e", "n", "v">>,
    <<"T", "E", "L", "E", "G", "R", "A", "M", "_", "B", "O", "T", "_", "T", "O", "K", "E", "N">>,
    <<"A", "P", "I", "_", "K", "E", "Y">>,
    <<"c", "u", "r", "l", "\\s+", ".*", "a", "p", "i", ".", "t", "e", "l", "e", "g", "r", "a", "m">>,
    <<"n", "p", "m", "\\s+", "p", "u", "b", "l", "i", "s", "h">>,
    <<"s", "u", "d", "o", "\\s">>,
    <<"c", "h", "m", "o", "d", "\\s+", "7", "7", "7">>,
    <<"c", "r", "o", "n", "t", "a", "b">>>>

\* str.lower() on the letters, for re.IGNORECASE.
UpperCase == <<"A", "B", "C", "D", "E", "F", "G", "H", "I", "J", "K", "L", "M",
               "N", "O", "P", "Q", "R", "S", "T", "U", "V", "W", "X", "Y", "Z">>
LowerCase == <<"a", "b", "c", "d", "e", "f", "g", "h", "i", "j", "k", "l", "m",
               "n", "o", "p", "q", "r", "s", "t", "u", "v", "w", "x", "y", "z">>
Lower(ch) ==
  IF \E i \in 1..Len(UpperCase) : UpperCase[i] = ch
    THEN LowerCase[CHOOSE i \in 1..Len(UpperCase) : UpperCase[i] = ch]
    ELSE ch

\* \s of the re module, on the characters the commands use.
IsSpace(ch) == ch \in {" ", "\t", "\n"}

\* Whether pattern pat, from its element i on, matches text at position j
\* (re.match semantics with backtracking).
RECURSIVE MatchAt(_, _, _, _)
MatchAt(pat, i, text, j) ==
  IF i > Len(pat) THEN TRUE
  ELSE IF pat[i] = "\\s+"
    THEN /\ j <= Len(text)
         /\ IsSpace(text[j])
         /\ (MatchAt(pat, i + 1, text, j + 1) \/ MatchAt(pat, i, text, j + 1))
  ELSE IF pat[i] = "\\s"
    THEN /\ j <= Len(text)
         /\ IsSpace(text[j])
         /\ MatchAt(pat, i + 1, text, j + 1)
  ELSE IF pat[i] = ".*"
    THEN \/ MatchAt(pat, i + 1, text, j)
         \/ /\ j <= Len(text)
            /\ text[j] # "\n"
            /\ MatchAt(pat, i, text, j + 1)
  ELSE /\ j <= Len(text)
       /\ Lower(text[j]) = Lower(pat[i])
       /\ MatchAt(pat, i + 1, text, j + 1)

\* re.search(pattern, cmd, re.IGNORECASE), line 42.
re_search(pat, text) == \E j \in 1..(Len(text) + 1) : MatchAt(pat, 1, text, j)

\* check_command, lines 40-44: whether a block message is returned.
check_command(cmd) ==
  \E k \in 1..Len(BLOCKED_PATTERNS) : re_search(BLOCKED_PATTERNS[k], cmd)

\* Commands the hook is tried on.
GuardCommands ==
  { <<"l", "s">>,
    <<"g", "i", "t", " ", " ", "p", "u", "s", "h">>,
    <<"G", "I", "T", " ", "P", "U", "S", "H">>,
    <<"g", "i", "t", "p", "u", "s", "h">>,
    <<"r", "m", " ", "-", "r", "f", " ", ".">>,
    <<"r", "m", " ", "-", "r", "f", " ", ".", " ">>,
    <<"r", "m", " ", "-", "r", "f", " ", "/">>,
    <<"c", "a", "t", " ", ".", "e", "n", "v">>,
    <<"c", "u", "r", "l", " ", " ", "x", "a", "p", "i", ".", "t", "e", "l", "e", "g", "r", "a", "m">>,
    <<"s", "u", "d", "o">>,
    <<"s", "u", "d", "o", "\t", "x">>,
    <<"k", "i", "l", "l", " ", "-", "9", " ", "1">>,
    <<"e", "c", "h", "o", " ", "A", "p", "i", "_", "K", "e", "y">>,
    <<"c", "h", "m", "o", "d", " ", "0", "7", "7", "7">> }

\* What the hook reads on stdin: text that is no JSON, JSON that is no
\* object, or an object.  Of an object: tool_name (or "" when missing) and
\* tool_input, which is missing, no object, or an object whose command is
\* missing, no string, or a string.
GuardStdin ==
  {[json |-> k, tool_name |-> "", tool_input |-> "missing", command |-> <<>>]
     : k \in {"garbage", "array"}}
  \cup
  {[json |-> "object", tool_name |-> t, tool_input |-> i, command |-> <<>>]
     : t \in {"Bash", "Write", ""},
       i \in {"missing", "string", "no command", "number command"}}
  \cup
  {[json |-> "object", tool_name |-> t, tool_input |-> "command", command |-> c]
     : t \in {"Bash", "Write", ""}, c \in GuardCommands}

\* The exit status of main, lines 46-70, on a given stdin with the file
\* /tmp/nightly-mode present or not.  An exception nothing catches ends
\* the interpreter with status 1.
GuardExit(nightly, stdin) ==
  IF ~nightly THEN 0                                    \* lines 48-49
  ELSE IF stdin.json = "garbage" THEN 0                 \* lines 51-54
  ELSE IF stdin.json # "object" THEN 1                  \* line 56: data.get
  ELSE IF stdin.tool_name # "Bash" THEN 0               \* lines 60-61
  ELSE IF stdin.tool_input = "string" THEN 1            \* line 63
  ELSE IF stdin.tool_input = "number command" THEN 1    \* line 42
  ELSE IF check_command(stdin.command) THEN 2           \* lines 66-68
  ELSE 0                                                \* line 70

GInit ==
  /\ nightlyMode = FALSE
  /\ guardRun = [stdin |-> [json |-> "garbage", tool_name |-> "",
                            tool_input |-> "missing", command |-> <<>>],
                 nightly |-> FALSE, exit |-> 0, ran |-> FALSE]

\* The nightly runner creates /tmp/nightly-mode, or removes it.
NightlyModeToggle ==
  /\ nightlyMode' = ~nightlyMode
  /\ UNCHANGED guardRun
  /\ UNCHANGED notGuard

\* One run of the PreToolUse hook.
GuardHook(stdin) ==
  /\ guardRun' = [stdin |-> stdin, nightly |-> nightlyMode,
                  exit |-> GuardExit(nightlyMode, stdin), ran |-> TRUE]
  /\ UNCHANGED nightlyMode
  /\ UNCHANGED notGuard

GNext ==
  \/ NightlyModeToggle
  \/ \E stdin \in GuardStdin : GuardHook(stdin)

(***************************************************************************)
(*        patch-memory-gateway.py : exec-handlers.ts (task_queue)          *)
(***************************************************************************)
\* Tasks submitted in a behaviour (the ids generateId hands out).
MaxTasks == 2
Tasks == 1..MaxTasks

\* The gateway's clock runs from GwClockStart to MaxGwClock.
GwClockStart == 9
MaxGwClock == 10

\* new Date().toISOString(), line 71: a fixed-width text, here two digits.
toISOString(t) == <<t \div 10, t % 10>>

\* How SQLite compares two TEXT values: character by character.
RECURSIVE TextLess(_, _)
TextLess(a, b) ==
  IF b = <<>> THEN FALSE
  ELSE IF a = <<>> THEN TRUE
  ELSE IF Head(a) # Head(b) THEN Head(a) < Head(b)
  ELSE TextLess(Tail(a), Tail(b))

NoRow == [status |-> "absent", created_at |-> <<>>, result_exit_code |-> <<>>]

GwInit ==
  /\ taskQueue = [t \in Tasks |-> NoRow]
  /\ gwClock = GwClockStart
  /\ gwLast = [op |-> "none", task |-> 0, seq |-> 0]

\* The history entry of a handler run; seq alternates from run to run.
Handled(op, task) == [op |-> op, task |-> task, seq |-> 1 - gwLast.seq]

\* Time passes on the gateway.
GwTick ==
  /\ gwClock < MaxGwClock
  /\ gwClock' = gwClock + 1
  /\ UNCHANGED <<taskQueue, gwLast, pollerVars, notExec>>

\* handleExecSubmit, lines 61-90, with a body that holds a command: a new
\* row, status 'pending', created_at the gateway's time.  (A body without
\* a command is answered with 400 and changes nothing.)
handleExecSubmit(t) ==
  /\ taskQueue[t].status = "absent"
  /\ taskQueue' = [taskQueue EXCEPT ![t] =
                     [status |-> "pending", created_at |-> toISOString(gwClock),
                      result_exit_code |-> <<>>]]
  /\ gwLast' = Handled("submit", t)
  /\ UNCHANGED <<gwClock, pollerVars, notExec>>

\* A slip: ORDER BY created_at DESC.
SelectNewestPending(queue) ==
  {t \in Tasks :
     /\ queue[t].status = "pending"
     /\ \A u \in Tasks :
          queue[u].status = "pending"
            => ~TextLess(queue[t].created_at, queue[u].created_at)}

\* SELECT ... WHERE status = 'pending' ORDER BY created_at ASC LIMIT 1,
\* lines 99-105: the rows the statement may return (several when the
\* oldest created_at is shared, none when nothing is pending).
SelectOldestPending(queue) ==
  {t \in Tasks :
     /\ queue[t].status = "pending"
     /\ \A u \in Tasks :
          queue[u].status = "pending"
            => ~TextLess(queue[u].created_at, queue[t].created_at)}

\* UPDATE task_queue SET status = 'running' WHERE id = ?, lines 112-114.
MarkRunning(queue, t) == [queue EXCEPT ![t].status = "running"]

\* handleExecPoll, lines 96-121: the task it returns (0 for task: null)
\* and the table as it leaves it.
PollResults(queue) ==
  IF SelectOldestPending(queue) = {}
    THEN {[task |-> 0, queue |-> queue]}
    ELSE {[task |-> t, queue |-> MarkRunning(queue, t)]
            : t \in SelectOldestPending(queue)}

\* handleExecComplete, lines 127-157: UPDATE ... SET status = 'done' and
\* the result WHERE id = task_id.
CompleteResult(queue, t, exit_code) ==
  [queue EXCEPT ![t].status = "done", ![t].result_exit_code = <<exit_code>>]

(***************************************************************************)
(*    setup-poller-independence.py : task-poller.ts (POLLER_CODE)          *)
(***************************************************************************)
ERROR_BURST_LIMIT == 10
ERROR_BURST_WINDOW_MS == 10 * 60 * 1000

\* The poller processes: the launchd job and a second start of the script.
Procs == {1, 2}
\* Processes started in a behaviour (each gets a fresh pid).
MaxLaunches == 3
\* The poller's clock advances in steps of half an error window, at most
\* MaxTicks times.
MaxTicks == 3
TickMs == ERROR_BURST_WINDOW_MS \div 2

NoExit == [how |-> "none", code |-> 0, reason |-> "none"]
NoProc == [pc |-> "off", pid |-> 0, readPid |-> 0, errorTimestamps |-> <<>>,
           task |-> 0, exitCode |-> 0, exit |-> NoExit]

PInit ==
  /\ proc = [p \in Procs |-> NoProc]
  /\ lockFile = <<>>
  /\ tmpLock = <<>>
  /\ nextPid = 1
  /\ now = 0
  /\ cycles = [p \in Procs |-> 0]

\* process.kill(pid, 0), line 192: whether a process with that pid lives.
Alive(pid) == \E q \in Procs : proc[q].pid = pid /\ proc[q].pc # "off"

\* Positions at which the handlers of lines 353-367 are installed.
HandlersInstalled(p) == proc[p].pc \in {"loop", "exec", "complete"}

\* releaseLock, lines 215-227: the lock file as it leaves it.
releaseLock(p) ==
  IF lockFile # <<>> /\ lockFile[1].token = proc[p].pid THEN <<>> ELSE lockFile

\* launchd, KeepAlive { SuccessfulExit = false } (plist lines 415-419) and
\* RunAtLoad: a job is started when it has not run yet, and again after
\* every exit that is not a successful one.
Restartable(exit) ==
  \/ exit.how = "none"
  \/ exit.how = "killed"
  \/ exit.how = "exit" /\ exit.code # 0

\* process.exit(code), reached for the given reason.
Exited(p, code, reason) ==
  [proc[p] EXCEPT !.pc = "off", !.task = 0,
                  !.exit = [how |-> "exit", code |-> code, reason |-> reason]]

\* The process is started: main, line 345.  instanceToken is drawn anew;
\* it is modelled by the pid, which is fresh for every process.
Launch(p) ==
  /\ proc[p].pc = "off"
  /\ Restartable(proc[p].exit)
  /\ nextPid <= MaxLaunches
  /\ proc' = [proc EXCEPT ![p] = [NoProc EXCEPT !.pc = "existsSync",
                                               !.pid = nextPid]]
  /\ nextPid' = nextPid + 1
  /\ cycles' = [cycles EXCEPT ![p] = 0]
  /\ UNCHANGED <<lockFile, tmpLock, now, gatewayVars, notExec>>

\* acquireLock, line 185: existsSync(LOCK_PATH).
AcqExists(p) ==
  /\ proc[p].pc = "existsSync"
  /\ proc' = [proc EXCEPT ![p].pc =
                IF lockFile # <<>> THEN "readLock" ELSE "writeTmp"]
  /\ UNCHANGED <<lockFile, tmpLock, nextPid, now, cycles, gatewayVars, notExec>>

\* acquireLock, lines 187-189 and 201-203: read the lock and parse the pid.
\* A lock removed in the meantime makes readFileSync throw ('Corrupt lock
\* file. Taking over.'); the process's own pid is taken over as well.
AcqRead(p) ==
  /\ proc[p].pc = "readLock"
  /\ proc' = [proc EXCEPT
       ![p].pc = IF lockFile # <<>> /\ lockFile[1].pid # proc[p].pid
                   THEN "kill0" ELSE "writeTmp",
       ![p].readPid = IF lockFile # <<>> THEN lockFile[1].pid ELSE 0]
  /\ UNCHANGED <<lockFile, tmpLock, nextPid, now, cycles, gatewayVars, notExec>>

\* acquireLock, lines 191-199, and main, lines 348-350: the pid is alive,
\* acquireLock returns false and main exits with 0; or it is dead and the
\* stale lock is taken over.
AcqKill0(p) ==
  /\ proc[p].pc = "kill0"
  /\ proc' = [proc EXCEPT ![p] =
                IF Alive(proc[p].readPid)
                  THEN Exited(p, 0, "lock held")
                  ELSE [proc[p] EXCEPT !.pc = "writeTmp"]]
  /\ UNCHANGED <<lockFile, tmpLock, nextPid, now, cycles, gatewayVars, notExec>>

\* acquireLock, lines 207-209: writeFileSync(tmpLock, lockContent).
AcqWriteTmp(p) ==
  /\ proc[p].pc = "writeTmp"
  /\ tmpLock' = <<[pid |-> proc[p].pid, token |-> proc[p].pid]>>
  /\ proc' = [proc EXCEPT ![p].pc = "rename"]
  /\ UNCHANGED <<lockFile, nextPid, now, cycles, gatewayVars, notExec>>

\* acquireLock, lines 210-212: renameSync(tmpLock, LOCK_PATH).  With the
\* temporary file gone (another process renamed it) renameSync throws,
\* main rejects and main().catch, lines 380-384, releases and exits 1.
AcqRename(p) ==
  /\ proc[p].pc = "rename"
  /\ IF tmpLock # <<>>
       THEN /\ lockFile' = tmpLock
            /\ tmpLock' = <<>>
            /\ proc' = [proc EXCEPT ![p].pc = "install"]
       ELSE /\ lockFile' = releaseLock(p)
            /\ proc' = [proc EXCEPT ![p] = Exited(p, 1, "main rejected")]
            /\ UNCHANGED tmpLock
  /\ UNCHANGED <<nextPid, now, cycles, gatewayVars, notExec>>

\* main, lines 353-369: the signal and uncaughtException handlers are
\* installed and the loop is entered.
InstallHandlers(p) ==
  /\ proc[p].pc = "install"
  /\ proc' = [proc EXCEPT ![p].pc = "loop"]
  /\ UNCHANGED <<lockFile, tmpLock, nextPid, now, cycles, gatewayVars, notExec>>

\* recordError, lines 233-237: entries older than the window are shifted
\* off the front.
RECURSIVE TrimOld(_, _)
TrimOld(timestamps, cutoff) ==
  IF timestamps # <<>> /\ Head(timestamps) < cutoff
    THEN TrimOld(Tail(timestamps), cutoff)
    ELSE timestamps

\* recordError, lines 230-238.
recordError(timestamps, t) ==
  TrimOld(Append(timestamps, t), t - ERROR_BURST_WINDOW_MS)

\* shouldEnterSafeMode, lines 240-242.
shouldEnterSafeMode(timestamps) == Len(timestamps) >= ERROR_BURST_LIMIT

\* pollAndExecute, catch block, lines 323-337: the error is recorded; in
\* safe mode the lock is released and the process exits with 0, otherwise
\* the loop goes on.  counted: whether the history of cycles is kept.
Caught(p, counted) ==
  LET timestamps == recordError(proc[p].errorTimestamps, now) IN
    /\ proc' = [proc EXCEPT ![p] =
         IF shouldEnterSafeMode(timestamps)
           THEN [Exited(p, 0, "safe mode") EXCEPT
                   !.errorTimestamps = timestamps]
           ELSE [proc[p] EXCEPT !.pc = "loop", !.task = 0,
                                !.errorTimestamps = timestamps]]
    /\ lockFile' = IF shouldEnterSafeMode(timestamps)
                     THEN releaseLock(p) ELSE lockFile
    /\ cycles' = IF counted THEN [cycles EXCEPT ![p] = @ + 1] ELSE cycles

\* A cycle of pollAndExecute that ends without an error.
CycleDone(p, counted) ==
  /\ cycles' = IF counted THEN [cycles EXCEPT ![p] = 0] ELSE cycles
  /\ UNCHANGED lockFile

\* pollAndExecute, lines 295-302: the poll request is answered by
\* handleExecPoll.  task: null ends the cycle, a task is executed next.
PollServed(p, counted) ==
  /\ proc[p].pc = "loop"
  /\ \E r \in PollResults(taskQueue) :
       /\ taskQueue' = r.queue
       /\ gwLast' = Handled("poll", r.task)
       /\ IF r.task = 0
            THEN /\ CycleDone(p, counted)
                 /\ UNCHANGED proc
            ELSE /\ proc' = [proc EXCEPT ![p].pc = "exec", ![p].task = r.task]
                 /\ UNCHANGED <<lockFile, cycles>>
  /\ UNCHANGED <<tmpLock, nextPid, now, gwClock, notExec>>

\* The poll request is handled by handleExecPoll, but the response does
\* not arrive within FETCH_TIMEOUT_MS (or is cut off): fetch throws.
PollLost(p, counted) ==
  /\ proc[p].pc = "loop"
  /\ \E r \in PollResults(taskQueue) :
       /\ taskQueue' = r.queue
       /\ gwLast' = Handled("poll", r.task)
  /\ Caught(p, counted)
  /\ UNCHANGED <<tmpLock, nextPid, now, gwClock, notExec>>

\* The poll request does not reach the gateway: fetch throws.
PollFailed(p, counted) ==
  /\ proc[p].pc = "loop"
  /\ Caught(p, counted)
  /\ UNCHANGED <<tmpLock, nextPid, now, gatewayVars, notExec>>

\* handleExecPoll, lines 117-120: the database throws and the gateway
\* answers 500 with ok: false; pollAndExecute returns at line 299.
PollError(p) ==
  /\ proc[p].pc = "loop"
  /\ gwLast' = Handled("poll error", 0)
  /\ UNCHANGED <<taskQueue, gwClock, pollerVars, notExec>>

\* executeCommand, lines 256-287: it never throws; the exit code is 0 or
\* that of the failure.
executeCommand(p) ==
  /\ proc[p].pc = "exec"
  /\ \E exitCode \in {0, 1} :
       proc' = [proc EXCEPT ![p].pc = "complete", ![p].exitCode = exitCode]
  /\ UNCHANGED <<lockFile, tmpLock, nextPid, now, cycles, gatewayVars, notExec>>

\* pollAndExecute, lines 313-322: the completion report is handled by
\* handleExecComplete and the response arrives.
CompleteServed(p, counted) ==
  /\ proc[p].pc = "complete"
  /\ taskQueue' = CompleteResult(taskQueue, proc[p].task, proc[p].exitCode)
  /\ gwLast' = Handled("complete", proc[p].task)
  /\ proc' = [proc EXCEPT ![p].pc = "loop", ![p].task = 0]
  /\ CycleDone(p, counted)
  /\ UNCHANGED <<tmpLock, nextPid, now, gwClock, notExec>>

\* The completion report is handled, but the response does not arrive.
CompleteLost(p, counted) ==
  /\ proc[p].pc = "complete"
  /\ taskQueue' = CompleteResult(taskQueue, proc[p].task, proc[p].exitCode)
  /\ gwLast' = Handled("complete", proc[p].task)
  /\ Caught(p, counted)
  /\ UNCHANGED <<tmpLock, nextPid, now, gwClock, notExec>>

\* The completion report does not reach the gateway: fetch throws.
CompleteFailed(p, counted) ==
  /\ proc[p].pc = "complete"
  /\ Caught(p, counted)
  /\ UNCHANGED <<tmpLock, nextPid, now, gatewayVars, notExec>>

\* handleExecComplete, lines 153-156: the database throws, the gateway
\* answers 500; pollAndExecute does not look at the response.
CompleteError(p) ==
  /\ proc[p].pc = "complete"
  /\ gwLast' = Handled("complete error", proc[p].task)
  /\ proc' = [proc EXCEPT ![p].pc = "loop", ![p].task = 0]
  /\ UNCHANGED <<taskQueue, gwClock, lockFile, tmpLock, nextPid, now, cycles,
                 notExec>>

\* SIGTERM or SIGINT is delivered.  With the handlers installed shutdown,
\* lines 353-358, releases the lock and exits with 0; before line 359 the
\* signal has its default disposition and ends the process.
Signal(p) ==
  /\ proc[p].pc # "off"
  /\ IF HandlersInstalled(p)
       THEN /\ proc' = [proc EXCEPT ![p] = Exited(p, 0, "signal")]
            /\ lockFile' = releaseLock(p)
       ELSE /\ proc' = [proc EXCEPT ![p] =
                 [proc[p] EXCEPT !.pc = "off", !.task = 0,
                    !.exit = [how |-> "killed", code |-> 143,
                              reason |-> "signal"]]]
            /\ UNCHANGED lockFile
  /\ UNCHANGED <<tmpLock, nextPid, now, cycles, gatewayVars, notExec>>

\* An exception escapes a callback: the uncaughtException handler, lines
\* 363-367, releases the lock and exits with 1.
UncaughtException(p) ==
  /\ HandlersInstalled(p)
  /\ proc' = [proc EXCEPT ![p] = Exited(p, 1, "uncaught exception")]
  /\ lockFile' = releaseLock(p)
  /\ UNCHANGED <<tmpLock, nextPid, now, cycles, gatewayVars, notExec>>

\* Time passes on the poller's machine.
Tick ==
  /\ now < MaxTicks * TickMs
  /\ now' = now + TickMs
  /\ UNCHANGED <<proc, lockFile, tmpLock, nextPid, cycles, gatewayVars, notExec>>

\* The launchd job.
Daemon == CHOOSE p \in Procs : \A q \in Procs : p <= q

\* Two processes of the poller under launchd; no task is submitted.
LaunchdNext ==
  \E p \in Procs :
    \/ Launch(p)
    \/ AcqExists(p)
    \/ AcqRead(p)
    \/ AcqKill0(p)
    \/ AcqWriteTmp(p)
    \/ AcqRename(p)
    \/ InstallHandlers(p)
    \/ PollServed(p, FALSE)
    \/ PollFailed(p, FALSE)
    \/ Signal(p)
    \/ UncaughtException(p)

\* The launchd job alone, with time passing; the failed cycles since the
\* last successful one are counted.
PollerNext ==
  \/ Launch(Daemon)
  \/ AcqExists(Daemon)
  \/ AcqRead(Daemon)
  \/ AcqKill0(Daemon)
  \/ AcqWriteTmp(Daemon)
  \/ AcqRename(Daemon)
  \/ InstallHandlers(Daemon)
  \/ PollServed(Daemon, TRUE)
  \/ PollFailed(Daemon, TRUE)
  \/ Signal(Daemon)
  \/ UncaughtException(Daemon)
  \/ Tick

\* The launchd job polling the gateway while tasks are submitted; the
\* process is neither signalled nor does it crash, and finds no lock.
ExecNext ==
  \/ Launch(Daemon)
  \/ AcqExists(Daemon)
  \/ AcqWriteTmp(Daemon)
  \/ AcqRename(Daemon)
  \/ InstallHandlers(Daemon)
  \/ PollServed(Daemon, FALSE)
  \/ PollLost(Daemon, FALSE)
  \/ PollFailed(Daemon, FALSE)
  \/ PollError(Daemon)
  \/ executeCommand(Daemon)
  \/ CompleteServed(Daemon, FALSE)
  \/ CompleteLost(Daemon, FALSE)
  \/ CompleteFailed(Daemon, FALSE)
  \/ CompleteError(Daemon)
  \/ GwTick
  \/ \E t \in Tasks : handleExecSubmit(t)

(***************************************************************************)
(*        patch-memory-gateway.py : handleExecRun (POST /v1/exec/run)      *)
(***************************************************************************)
maxWait == 25000
pollInterval == 2000
\* A timer fires on time or up to MaxTimerLate ms late.
MaxTimerLate == 1000

NoResponse == [kind |-> "none", exit_code |-> <<>>]

RunInit ==
  run = [pc |-> "idle", id |-> 0, elapsed |-> 0, response |-> NoResponse]

\* handleExecRun, lines 188-207, with a body that holds a command: a new
\* row with status 'pending' is inserted and startTime is taken.
RunStart(t) ==
  /\ run.pc = "idle"
  /\ taskQueue[t].status = "absent"
  /\ taskQueue' = [taskQueue EXCEPT ![t] =
                     [status |-> "pending", created_at |-> toISOString(gwClock),
                      result_exit_code |-> <<>>]]
  /\ run' = [run EXCEPT !.pc = "sleep", !.id = t]
  /\ UNCHANGED <<gwClock, gwLast, pollerVars, notRun>>

\* handleExecRun, lines 191-193: a body without command is answered 400.
RunInvalid ==
  /\ run.pc = "idle"
  /\ run' = [run EXCEPT !.pc = "responded",
                        !.response = [kind |-> "invalid", exit_code |-> <<>>]]
  /\ UNCHANGED <<gatewayVars, pollerVars, notRun>>

\* handleExecRun, line 210: setTimeout(resolve, pollInterval).
RunSleep ==
  /\ run.pc = "sleep"
  /\ \E late \in {0, MaxTimerLate} :
       run' = [run EXCEPT !.pc = "select",
                          !.elapsed = run.elapsed + pollInterval + late]
  /\ UNCHANGED <<gatewayVars, pollerVars, notRun>>

\* A slip: the handler gives up at the first poll that is not 'done'.
RunSelectImpatient ==
  /\ run.pc = "select"
  /\ run' = [run EXCEPT
       !.pc = "responded",
       !.response =
          IF taskQueue[run.id].status = "done"
            THEN [kind |-> "done",
                  exit_code |-> taskQueue[run.id].result_exit_code]
            ELSE [kind |-> "timeout", exit_code |-> <<>>]]
  /\ UNCHANGED <<gatewayVars, pollerVars, notRun>>

\* handleExecRun, lines 212-233 and 209: the row is selected; with status
\* 'done' the result is returned, otherwise the loop goes on while
\* Date.now() - startTime < maxWait and else the timeout is returned.
RunSelect ==
  /\ run.pc = "select"
  /\ run' =
       IF taskQueue[run.id].status = "done"
         THEN [run EXCEPT !.pc = "responded",
                 !.response = [kind |-> "done",
                    exit_code |-> taskQueue[run.id].result_exit_code]]
       ELSE IF run.elapsed < maxWait
         THEN [run EXCEPT !.pc = "sleep"]
         ELSE [run EXCEPT !.pc = "responded",
                 !.response = [kind |-> "timeout", exit_code |-> <<>>]]
  /\ UNCHANGED <<gatewayVars, pollerVars, notRun>>

\* handleExecRun, lines 235-238: the SELECT throws and the gateway answers
\* 500.
RunError ==
  /\ run.pc = "select"
  /\ run' = [run EXCEPT !.pc = "responded",
                        !.response = [kind |-> "error", exit_code |-> <<>>]]
  /\ UNCHANGED <<gatewayVars, pollerVars, notRun>>

\* A step of handleExecRun.
RunStep == RunSleep \/ RunSelect \/ RunError

\* A run request while the launchd job polls the gateway and another
\* task may be submitted.
RunNext ==
  \/ Launch(Daemon)
  \/ AcqExists(Daemon)
  \/ AcqWriteTmp(Daemon)
  \/ AcqRename(Daemon)
  \/ InstallHandlers(Daemon)
  \/ PollServed(Daemon, FALSE)
  \/ executeCommand(Daemon)
  \/ CompleteServed(Daemon, FALSE)
  \/ RunInvalid
  \/ RunSleep
  \/ RunSelect
  \/ RunError
  \/ \E t \in Tasks : handleExecSubmit(t) \/ RunStart(t)

(***************************************************************************)
(*     apply-patches.py, apply-patches-v2.py, apply-patches-v3.py          *)
(***************************************************************************)
\* File contents and patch texts are strings over Alphabet; contents are
\* at most MaxContentLen long.
MaxContentLen == 3
Alphabet == {"a", "b"}

RECURSIVE Strings(_)
Strings(n) ==
  IF n = 0 THEN {<<>>}
  ELSE Strings(n - 1)
         \cup {Append(w, ch) : w \in Strings(n - 1), ch \in Alphabet}

Contents == Strings(MaxContentLen)
\* The old and new texts of a patch (the old text is never empty).
OldTexts == {<<"a">>, <<"a", "a">>, <<"a", "b">>}
NewTexts == {<<>>, <<"b">>, <<"a", "a">>}

\* The calls of patch_file in each script, by target file.
Scripts ==
  {<<"TEXT_TS", "TEXT_TS", "TEXT_TS", "INDEX_TS">>,
   <<"TEXT_TS", "TEXT_TS", "TEXT_TS">>,
   <<"TEXT_TS">>}

\* Whether sub starts at position i of content.
StartsAt(content, sub, i) ==
  /\ i + Len(sub) - 1 <= Len(content)
  /\ SubSeq(content, i, i + Len(sub) - 1) = sub

\* old in content.
Contains(content, old) ==
  \E i \in 1..Len(content) : StartsAt(content, old, i)

\* content.count(old): the occurrences found from left to right, each
\* search resuming behind the occurrence found before.
RECURSIVE CountFrom(_, _, _)
CountFrom(content, old, i) ==
  IF i > Len(content) THEN 0
  ELSE IF StartsAt(content, old, i)
    THEN 1 + CountFrom(content, old, i + Len(old))
    ELSE CountFrom(content, old, i + 1)

count(content, old) == CountFrom(content, old, 1)

\* content.replace(old, new): the same occurrences, replaced.
RECURSIVE ReplaceFrom(_, _, _, _)
ReplaceFrom(content, old, new, i) ==
  IF i > Len(content) THEN <<>>
  ELSE IF StartsAt(content, old, i)
    THEN new \o ReplaceFrom(content, old, new, i + Len(old))
    ELSE <<content[i]>> \o ReplaceFrom(content, old, new, i + 1)

replace(content, old, new) == ReplaceFrom(content, old, new, 1)

\* patch_file, lines 9-22, on a file that can be read: what is written
\* (<<>> for nothing, else <<content>>) and whether an error is recorded.
patch_file(content, old, new) ==
  IF ~Contains(content, old)
    THEN [written |-> <<>>, error |-> TRUE]
  ELSE IF count(content, old) > 1
    THEN [written |-> <<>>, error |-> TRUE]
  ELSE [written |-> <<replace(content, old, new)>>, error |-> FALSE]

NoPatch == [ran |-> FALSE, raised |-> FALSE, before |-> <<>>, old |-> <<>>,
            new |-> <<>>, written |-> <<>>, error |-> FALSE]

PatchInit ==
  /\ files = [f \in {"TEXT_TS", "INDEX_TS"} |-> <<>>]
  /\ errors = <<>>
  /\ patchPc = 0
  /\ patchScript = <<>>
  /\ patchExit = [exited |-> FALSE, code |-> 0, completed |-> FALSE]
  /\ lastPatch = NoPatch

\* One of the scripts is started; the target files are as they are on the
\* machine (text.ts with any content or missing, index.ts likewise).
PatchScriptStart ==
  /\ patchPc = 0
  /\ \E script \in Scripts :
       /\ patchScript' = script
       /\ \E text \in {<<>>} \cup {<<c>> : c \in Contents},
             index \in {<<>>, <<<<"a">>>>, <<<<"a", "a", "a">>>>} :
            files' = [f \in {"TEXT_TS", "INDEX_TS"} |->
                        IF f = "TEXT_TS" THEN text ELSE index]
  /\ patchPc' = 1
  /\ UNCHANGED <<errors, patchExit, lastPatch, notPatch>>

\* The next call of patch_file.  open(path, "r") on a missing file raises
\* FileNotFoundError, which nothing catches: the interpreter exits with
\* status 1.
PatchFile ==
  /\ ~patchExit.exited
  /\ patchPc \in 1..Len(patchScript)
  /\ \E old \in OldTexts, new \in NewTexts :
       LET path == patchScript[patchPc] IN
         IF files[path] = <<>>
           THEN /\ lastPatch' = [NoPatch EXCEPT !.ran = TRUE, !.raised = TRUE,
                                                !.old = old, !.new = new]
                /\ patchExit' = [exited |-> TRUE, code |-> 1,
                                 completed |-> FALSE]
                /\ UNCHANGED <<files, errors, patchPc>>
           ELSE LET r == patch_file(files[path][1], old, new) IN
                /\ files' = IF r.written = <<>> THEN files
                            ELSE [files EXCEPT ![path] = r.written]
                /\ errors' = IF r.error THEN Append(errors, patchPc)
                             ELSE errors
                /\ lastPatch' = [ran |-> TRUE, raised |-> FALSE,
                                 before |-> files[path][1], old |-> old,
                                 new |-> new, written |-> r.written,
                                 error |-> r.error]
                /\ patchPc' = patchPc + 1
                /\ UNCHANGED patchExit
  /\ UNCHANGED <<patchScript, notPatch>>

\* The end of the script: sys.exit(1) with errors, else sys.exit(0).
PatchScriptExit ==
  /\ ~patchExit.exited
  /\ patchPc = Len(patchScript) + 1
  /\ patchExit' = [exited |-> TRUE, code |-> IF errors # <<>> THEN 1 ELSE 0,
                   completed |-> TRUE]
  /\ UNCHANGED <<files, errors, patchPc, patchScript, lastPatch, notPatch>>

PatchNext == PatchScriptStart \/ PatchFile \/ PatchScriptExit

(***************************************************************************)
(*             scripts/ai-media.py : comfyui_queue_and_wait                *)
(***************************************************************************)
timeout == 2400
\* ws.recv() returns a message MaxRecvWait seconds after it was called, or
\* half that time.
MaxRecvWait == 800
RecvWaits == {MaxRecvWait \div 2, MaxRecvWait}

\* What ws.recv() returns: a text message with its type and the prompt it
\* is about, or a binary frame.
Messages ==
  [type : {"progress", "executed", "execution_error", "status"},
   prompt_id : {"queued", "other"}]
    \cup {[type |-> "binary", prompt_id |-> "other"]}

ComfyInit ==
  /\ comfy = [pc |-> "idle", outcome |-> "none", elapsed |-> 0, posts |-> 0,
              closed |-> FALSE]
  /\ received = {}

\* comfyui_queue_and_wait, lines 1010-1034: the socket is connected, the
\* workflow is posted; a result with "error" closes the socket and raises,
\* otherwise prompt_id is taken and the clock is started.
ComfyQueue ==
  /\ comfy.pc = "idle"
  /\ \E error \in BOOLEAN :
       comfy' = IF error
                  THEN [comfy EXCEPT !.pc = "ended", !.posts = @ + 1,
                                     !.outcome = "ComfyUI error",
                                     !.closed = TRUE]
                  ELSE [comfy EXCEPT !.pc = "waiting", !.posts = @ + 1]
  /\ UNCHANGED <<received, notComfy>>

\* A slip: the prompt_id of an 'executed' message is not looked at.
OnMessageAnyPrompt(c, msg) ==
  IF msg.type = "executed"
    THEN [c EXCEPT !.pc = "ended", !.outcome = "returned", !.closed = TRUE]
  ELSE IF msg.type = "execution_error" /\ msg.prompt_id = "queued"
    THEN [c EXCEPT !.pc = "ended", !.outcome = "Execution error",
                   !.closed = TRUE]
  ELSE c

\* Lines 1038-1058: what a message does to the call.
OnMessage(c, msg) ==
  IF msg.type = "executed" /\ msg.prompt_id = "queued"
    THEN [c EXCEPT !.pc = "ended", !.outcome = "returned", !.closed = TRUE]
  ELSE IF msg.type = "execution_error" /\ msg.prompt_id = "queued"
    THEN [c EXCEPT !.pc = "ended", !.outcome = "Execution error",
                   !.closed = TRUE]
  ELSE c

\* Lines 1035-1058: the loop condition holds, ws.recv() returns a message
\* and it is handled.
ComfyRecv ==
  /\ comfy.pc = "waiting"
  /\ comfy.elapsed < timeout
  /\ \E msg \in Messages, wait \in RecvWaits :
       /\ comfy' = OnMessage([comfy EXCEPT !.elapsed = @ + wait], msg)
       /\ received' = received \cup {msg}
  /\ UNCHANGED notComfy

\* Lines 1037 and 1059-1060: no message within the socket's timeout;
\* WebSocketTimeoutException is caught and the loop continues.
ComfyRecvTimeout ==
  /\ comfy.pc = "waiting"
  /\ comfy.elapsed < timeout
  /\ comfy' = [comfy EXCEPT !.elapsed = @ + timeout]
  /\ UNCHANGED <<received, notComfy>>

\* Line 1037: the connection is lost; ws.recv() raises an exception that
\* the loop does not catch.
ComfyRecvRaises ==
  /\ comfy.pc = "waiting"
  /\ comfy.elapsed < timeout
  /\ \E wait \in RecvWaits :
       comfy' = [comfy EXCEPT !.pc = "ended", !.outcome = "recv error",
                              !.elapsed = @ + wait]
  /\ UNCHANGED <<received, notComfy>>

\* Lines 1035 and 1062-1063: the loop condition fails.
ComfyTimeout ==
  /\ comfy.pc = "waiting"
  /\ comfy.elapsed >= timeout
  /\ comfy' = [comfy EXCEPT !.pc = "ended", !.outcome = "Timeout",
                            !.closed = TRUE]
  /\ UNCHANGED <<received, notComfy>>

\* A step of the waiting loop.
ComfyStep ==
  ComfyRecv \/ ComfyRecvTimeout \/ ComfyRecvRaises \/ ComfyTimeout

ComfyNext == ComfyQueue \/ ComfyStep

(***************************************************************************)
(*   scripts/ai-media.py : build_flux_img2img_workflow / _outpaint_workflow *)
(***************************************************************************)
\* Extra LoRAs passed to a builder.
MaxExtraLoras == 7
LoraNames == {"x", "y"}

RECURSIVE LoraLists(_)
LoraLists(n) ==
  IF n = 0 THEN {<<>>}
  ELSE LoraLists(n - 1)
         \cup {Append(l, name) : l \in LoraLists(n - 1), name \in LoraNames}

\* A node: its class_type, the inputs that refer to another node's output
\* (input name -> node id), and lora_name where it has one.
Node(class_type, refs, lora_name) ==
  [class_type |-> class_type, refs |-> refs, lora_name |-> lora_name]

\* workflow[str(id)] = node.
SetNode(wf, id, node) ==
  [k \in DOMAIN wf \cup {id} |-> IF k = id THEN node ELSE wf[k]]

\* The dict literal of build_flux_img2img_workflow, lines 409-494.
Img2ImgNodes ==
  [id \in 1..11 |->
     CASE id = 1 -> Node("UnetLoaderGGUF", <<>>, "")
       [] id = 2 -> Node("DualCLIPLoaderGGUF", <<>>, "")
       [] id = 3 -> Node("VAELoader", <<>>, "")
       [] id = 4 -> Node("LoraLoaderModelOnly", [model |-> 1], "lora")
       [] id = 5 -> Node("LoadImage", <<>>, "")
       [] id = 6 -> Node("VAEEncode", [pixels |-> 5, vae |-> 3], "")
       [] id = 7 -> Node("CLIPTextEncode", [clip |-> 2], "")
       [] id = 8 -> Node("CLIPTextEncode", [clip |-> 2], "")
       [] id = 9 -> Node("KSampler",
                         [model |-> 4, positive |-> 7, negative |-> 8,
                          latent_image |-> 6], "")
       [] id = 10 -> Node("VAEDecode", [samples |-> 9, vae |-> 3], "")
       [] id = 11 -> Node("SaveImage", [images |-> 10], "")]

\* The dict literal of build_flux_outpaint_workflow, lines 723-821.
OutpaintNodes ==
  SetNode(
    SetNode(Img2ImgNodes, 20, Node("ImagePadForOutpaint", [image |-> 5], "")),
    6, Node("VAEEncodeForInpaint", [pixels |-> 20, vae |-> 3, mask |-> 20], ""))

\* A slip: no id is skipped.
KeepNodeId(wf, node_id) == node_id

\* while str(node_id) in workflow: node_id += 1, lines 828-830.
RECURSIVE SkipUsedIds(_, _)
SkipUsedIds(wf, node_id) ==
  IF node_id \in DOMAIN wf THEN SkipUsedIds(wf, node_id + 1) ELSE node_id

\* The loop over extra_loras, lines 500-510 (skip = FALSE) and 827-840
\* (skip = TRUE): the workflow and last_model_node it ends with.
RECURSIVE ChainExtraLoras(_, _, _, _, _)
ChainExtraLoras(wf, extra_loras, node_id, last_model_node, skip) ==
  IF extra_loras = <<>>
    THEN [workflow |-> wf, last_model_node |-> last_model_node]
    ELSE LET id == IF skip THEN SkipUsedIds(wf, node_id) ELSE node_id
         IN ChainExtraLoras(
              SetNode(wf, id, Node("LoraLoaderModelOnly",
                                   [model |-> last_model_node],
                                   Head(extra_loras))),
              Tail(extra_loras), id + 1, id, skip)

\* workflow["9"]["inputs"][name] = [id, 0].
SetKSamplerInput(wf, name, id) ==
  [wf EXCEPT ![9].refs = [k \in DOMAIN wf[9].refs |->
                            IF k = name THEN id ELSE wf[9].refs[k]]]

\* Lines 496-512 and 823-841: the extra LoRAs are chained behind node 4
\* from id 14 on and the KSampler is pointed at the last one.
WithExtraLoras(wf, extra_loras, skip) ==
  IF extra_loras = <<>> THEN wf
  ELSE LET r == ChainExtraLoras(wf, extra_loras, 14, 4, skip)
       IN SetKSamplerInput(r.workflow, "model", r.last_model_node)

\* Lines 514-534: the face mask nodes.
WithMask(wf, mask) ==
  IF ~mask THEN wf
  ELSE SetKSamplerInput(
         SetNode(SetNode(wf, 12, Node("LoadImageMask", <<>>, "")),
                 13, Node("SetLatentNoiseMask", [samples |-> 6, mask |-> 12],
                          "")),
         "latent_image", 13)

build_flux_img2img_workflow(extra_loras, mask) ==
  WithMask(WithExtraLoras(Img2ImgNodes, extra_loras, FALSE), mask)

build_flux_outpaint_workflow(extra_loras) ==
  WithExtraLoras(OutpaintNodes, extra_loras, TRUE)

WorkflowInit ==
  /\ workflow = <<>>
  /\ wfInput = [builder |-> "none", extra_loras |-> <<>>, mask |-> FALSE]

\* A builder is called once, with any arguments.
BuildImg2Img ==
  \E extra_loras \in LoraLists(MaxExtraLoras), mask \in BOOLEAN :
    /\ wfInput.builder = "none"
    /\ workflow' = build_flux_img2img_workflow(extra_loras, mask)
    /\ wfInput' = [builder |-> "img2img", extra_loras |-> extra_loras,
                   mask |-> mask]
    /\ UNCHANGED notWorkflow

BuildOutpaint ==
  \E extra_loras \in LoraLists(MaxExtraLoras) :
    /\ wfInput.builder = "none"
    /\ workflow' = build_flux_outpaint_workflow(extra_loras)
    /\ wfInput' = [builder |-> "outpaint", extra_loras |-> extra_loras,
                   mask |-> FALSE]
    /\ UNCHANGED notWorkflow

WorkflowNext == BuildImg2Img \/ BuildOutpaint

Init ==
  /\ QInit
  /\ CInit
  /\ SInit
  /\ GInit
  /\ GwInit
  /\ PInit
  /\ RunInit
  /\ PatchInit
  /\ ComfyInit
  /\ WorkflowInit

SpecQueue == Init /\ [][QNext]_vars
SpecChain == Init /\ [][CNext]_vars
SpecStop == Init /\ [][SNext]_vars
SpecGuard == Init /\ [][GNext]_vars
SpecLaunchd == Init /\ [][LaunchdNext]_vars
SpecPoller == Init /\ [][PollerNext]_vars
SpecExec == Init /\ [][ExecNext]_vars
SpecPatch == Init /\ [][PatchNext]_vars
SpecWorkflow == Init /\ [][WorkflowNext]_vars

\* A step of the launchd job's process: the event loop runs whatever is
\* ready, whichever way a request turns out.
PollerStep ==
  \/ AcqExists(Daemon)
  \/ AcqWriteTmp(Daemon)
  \/ AcqRename(Daemon)
  \/ InstallHandlers(Daemon)
  \/ PollServed(Daemon, FALSE)
  \/ PollLost(Daemon, FALSE)
  \/ PollFailed(Daemon, FALSE)
  \/ PollError(Daemon)
  \/ executeCommand(Daemon)
  \/ CompleteServed(Daemon, FALSE)
  \/ CompleteLost(Daemon, FALSE)
  \/ CompleteFailed(Daemon, FALSE)
  \/ CompleteError(Daemon)

\* The process keeps being scheduled, and the network and the gateway are
\* not down for good: a request that is made again and again is served
\* again and again.  Single requests still fail.
FairSpecExec ==
  /\ Init /\ [][ExecNext]_vars
  /\ WF_vars(PollerStep)
  /\ SF_vars(PollServed(Daemon, FALSE))
  /\ SF_vars(CompleteServed(Daemon, FALSE))

\* The event loop runs every microtask that is ready and every started
\* function settles; nothing obliges a caller to call withMediaQueue.
QueueStep ==
  \E c \in Calls :
    \/ QFnSettle(c)
    \/ QFinally(c)
    \/ QNextSettle(c)
    \/ QNextThen(c)
    \/ QNextFinally(c)

FairSpecQueue == Init /\ [][QNext]_vars /\ WF_vars(QueueStep)

\* The Worker keeps running the handler: its timers fire and its
\* statements return.
FairSpecRun == Init /\ [][RunNext]_vars /\ WF_vars(RunStep)

\* The script keeps running: ws.recv() returns or raises, the loop goes on.
FairSpecComfy == Init /\ [][ComfyNext]_vars /\ WF_vars(ComfyStep)

\* C1: with the busy-flag queue of patch-queue.py, at most one wrapped
\* runAiMedia function is executing at any time, for every interleaving of
\* calls, settlements and microtasks.
C1_AtMostOneExecuting == Cardinality(QExecuting) <= 1

\* C1 witness: a handed-off function is executing while another call waits
\* and a third call has already been served.
C1_Witness ==
  \E c, d, e \in Calls :
    /\ qpc[c] = "nextRunning"
    /\ qpc[d] = "waiting"
    /\ qpc[e] = "done"

\* Position of call c in the order of the withMediaQueue calls (0: not
\* called yet).
CallIndex(c) ==
  IF \E i \in 1..Len(callOrder) : callOrder[i] = c
    THEN CHOOSE i \in 1..Len(callOrder) : callOrder[i] = c
    ELSE 0

\* C2: with the promise chain, wrapped functions run one at a time and in
\* call order: whenever the function of a call has started, the function
\* of every earlier call has settled, and the functions started so far are
\* exactly the first calls, in the order of the calls.
C2_SerialInCallOrder ==
  /\ Cardinality({c \in Calls : cpc[c] = "running"}) <= 1
  /\ \A c, d \in Calls :
       (/\ CallIndex(c) > 0
        /\ CallIndex(c) < CallIndex(d)
        /\ cpc[d] \in {"running", "resolved", "rejected", "done"})
       => cpc[c] \in {"resolved", "rejected", "done"}
  /\ Len(startOrder) <= Len(callOrder)
  /\ \A i \in 1..Len(startOrder) : startOrder[i] = callOrder[i]

\* C2 witness: three calls made in an order that is not the order of
\* their ids; the first has finished (rejected), the second is running
\* and the third is still chained behind it.
C2_Witness ==
  /\ Len(callOrder) >= 3
  /\ callOrder[1] > callOrder[2]
  /\ cPromise[callOrder[1]] = "rejected"
  /\ cpc[callOrder[2]] = "running"
  /\ cpc[callOrder[3]] = "chained"

\* C6: the Stop hook never prints 'block' more than MAX_RETRIES (3) times
\* in a row, whatever session_id the invocations carry.
C6_AtMostThreeBlocksInRow == blocksInRow <= MAX_RETRIES

\* Whether an added line ("+", not the "+++ " file header) of the diff
\* holds a banned pattern.
AddedBanned(diff) == \E line \in diff.lines : line.start = "+" /\ line.has # {}

\* Whether a changed file is a code file.
CodeChangesExist(changed) == \E f \in changed.files : f \in CODE_EXTENSIONS

\* The shape of C7 for a given reading of "the test run succeeds".
C7_Shape(TestsSucceed(_)) ==
  stopRun.decision # "none" =>
    /\ (CodeChangesExist(stopRun.changed) /\ stopRun.count < MAX_RETRIES) =>
         /\ stopRun.decision = "allow" =>
              ~AddedBanned(stopRun.diff) /\ TestsSucceed(stopRun.tests)
         /\ (AddedBanned(stopRun.diff) \/ ~TestsSucceed(stopRun.tests)) =>
              stopRun.decision = "block"
         /\ stopRun.decision = "block" => counterFile = <<stopRun.count + 1>>
    /\ ~CodeChangesExist(stopRun.changed) =>
         stopRun.decision = "allow" /\ counterFile = <<0>>

BunTestPassed(outcome) == outcome = "pass"
BunTestPassedOrNotRunnable(outcome) == outcome \in {"pass", "error"}

C8_BlockExactlyWhen ==
  guardRun.ran =>
    LET blocked ==
          /\ guardRun.nightly
          /\ guardRun.stdin.json # "garbage"
          /\ guardRun.stdin.tool_name = "Bash"
          /\ \E k \in 1..Len(BLOCKED_PATTERNS) :
               re_search(BLOCKED_PATTERNS[k], guardRun.stdin.command)
    IN guardRun.exit = (IF blocked THEN 2 ELSE 0)

\* C3: the lockfile prevents dual startup: whatever the interleaving of
\* two poller processes starting, at most one of them has passed
\* acquireLock and is in the polling loop while the other is alive.
PollingLoop(p) == proc[p].pc \in {"loop", "exec", "complete"}

C3_AtMostOnePollingLoop ==
  \A p, q \in Procs : p # q => ~(PollingLoop(p) /\ PollingLoop(q))

\* C10: exit-code protocol under launchd: a process stopped deliberately
\* (lock held by a live instance, SIGTERM/SIGINT, safe mode) has exited
\* with code 0 and is not started again; a crashed one (uncaught exception,
\* rejected main) has exited with code 1 and is started again.
DeliberateStops == {"lock held", "signal", "safe mode"}
Crashes == {"uncaught exception", "main rejected"}

C10_ExitCodeProtocol ==
  \A p \in Procs :
    /\ proc[p].exit.reason \in DeliberateStops
         => /\ proc[p].exit.how = "exit"
            /\ proc[p].exit.code = 0
            /\ ~ENABLED Launch(p)
    /\ proc[p].exit.reason \in Crashes
         => /\ proc[p].exit.how = "exit"
            /\ proc[p].exit.code = 1
            /\ nextPid <= MaxLaunches => ENABLED Launch(p)

\* C9: the poller is stopped by safe mode exactly when it has seen
\* ERROR_BURST_LIMIT failed poll cycles in a row; failures with successful
\* cycles between them do not add up.
C9_SafeModeExactlyOnConsecutiveFailures ==
  (proc[Daemon].exit.reason = "safe mode")
    <=> (cycles[Daemon] >= ERROR_BURST_LIMIT)

\* C4: a poll request handled while tasks are pending returns a pending
\* task with the oldest created_at and changes that task's status to
\* 'running' and nothing else; handled while none is pending it returns
\* task: null and changes no task.
PollHandled == gwLast'.seq # gwLast.seq /\ gwLast'.op = "poll"

C4_PollReturnsOldestPending ==
  [][PollHandled =>
       LET pending == {t \in Tasks : taskQueue[t].status = "pending"}
           task == gwLast'.task
       IN IF pending = {}
            THEN task = 0 /\ taskQueue' = taskQueue
            ELSE /\ task \in pending
                 /\ \A u \in pending :
                      ~TextLess(taskQueue[u].created_at,
                                taskQueue[task].created_at)
                 /\ taskQueue'[task] =
                      [taskQueue[task] EXCEPT !.status = "running"]
                 /\ \A u \in Tasks \ {task} : taskQueue'[u] = taskQueue[u]]_vars

\* A poll has returned the older of two pending tasks, created before and
\* after the clock gained a digit, and the younger one is still pending.
C4_Witness ==
  /\ gwLast.op = "poll"
  /\ gwLast.task # 0
  /\ taskQueue[gwLast.task].status = "running"
  /\ \E u \in Tasks :
       /\ taskQueue[u].status = "pending"
       /\ Head(taskQueue[gwLast.task].created_at) < Head(taskQueue[u].created_at)

\* C5: provided the poller keeps running its loop, every task submitted
\* to task_queue eventually has status 'done' with its result stored,
\* even if single requests of the poller fail or time out.
C5_EverySubmittedTaskDone ==
  ([]<>(proc[Daemon].pc = "loop"))
    => \A t \in Tasks :
         (taskQueue[t].status = "pending")
           ~> (taskQueue[t].status = "done"
                 /\ taskQueue[t].result_exit_code # <<>>)

\* C11: POST /v1/exec/run with a command inserts one pending task and then
\* always responds: with the task's exit code as soon as one of its polls,
\* pollInterval apart, finds status 'done', otherwise with 'timeout' once
\* maxWait has passed; the handler changes no row after the insert, so on
\* timeout the task stays in the queue as it is.
RunResponds == run.pc # "responded" /\ run'.pc = "responded"

C11_RunInsertsOnceAndAlwaysResponds ==
  /\ [][/\ run.pc = "idle" /\ run'.pc = "sleep"
          => \E t \in Tasks :
               /\ taskQueue[t].status = "absent"
               /\ run'.id = t
               /\ taskQueue' = [taskQueue EXCEPT ![t] =
                    [status |-> "pending",
                     created_at |-> toISOString(gwClock),
                     result_exit_code |-> <<>>]]
        /\ run.pc = "sleep" /\ run' # run
          => /\ run'.pc = "select"
             /\ run'.elapsed >= run.elapsed + pollInterval
             /\ taskQueue' = taskQueue
        /\ run.pc = "select" /\ run' # run /\ run'.response.kind # "error"
          => /\ taskQueue' = taskQueue
             /\ IF taskQueue[run.id].status = "done"
                  THEN /\ run'.pc = "responded"
                       /\ run'.response =
                            [kind |-> "done",
                             exit_code |-> taskQueue[run.id].result_exit_code]
                  ELSE IF run.elapsed < maxWait
                    THEN run'.pc = "sleep" /\ run'.response = NoResponse
                    ELSE /\ run'.pc = "responded"
                         /\ run'.response.kind = "timeout"
                         /\ run'.id = run.id]_vars
  /\ (run.pc \in {"sleep", "select"}) ~> (run.pc = "responded")

\* The request has timed out after maxWait while its task is still in the
\* queue, taken by the poller but not done.
C11_Witness ==
  /\ run.pc = "responded"
  /\ run.response.kind = "timeout"
  /\ run.elapsed >= maxWait
  /\ taskQueue[run.id].status = "running"

\* C12: patch_file, on a file it can read, rewrites it only when the old
\* text occurs exactly once in it; with no or several occurrences the file
\* is left as it is and an error is recorded; a script that has reached
\* its end exits 1 exactly when some patch recorded an error, and then
\* every patch has been tried.
Occurrences(content, old) ==
  Cardinality({i \in 1..Len(content) : StartsAt(content, old, i)})

Executed == [type |-> "executed", prompt_id |-> "queued"]
ExecutionError == [type |-> "execution_error", prompt_id |-> "queued"]

C13_ReturnsOnlyOnExecuted ==
  /\ [](/\ comfy.posts <= 1
        /\ comfy.pc # "idle" => comfy.posts = 1
        /\ comfy.outcome = "returned"
             => Executed \in received /\ ExecutionError \notin received
        /\ comfy.outcome = "Execution error"
             => ExecutionError \in received /\ Executed \notin received
        /\ comfy.outcome = "Timeout"
             => /\ comfy.elapsed >= timeout
                /\ Executed \notin received /\ ExecutionError \notin received
        /\ comfy.pc = "waiting"
             => Executed \notin received /\ ExecutionError \notin received
        /\ Executed \in received
             => comfy.pc = "ended" /\ comfy.outcome = "returned"
        /\ ExecutionError \in received
             => comfy.pc = "ended" /\ comfy.outcome = "Execution error")
  /\ (comfy.pc = "waiting") ~> (comfy.pc = "ended")

\* The call has returned after it had received progress messages and an
\* 'executed' and an 'execution_error' message of another prompt.
C13_Witness ==
  /\ comfy.outcome = "returned"
  /\ [type |-> "progress", prompt_id |-> "queued"] \in received
  /\ [type |-> "executed", prompt_id |-> "other"] \in received
  /\ [type |-> "execution_error", prompt_id |-> "other"] \in received

\* C14: in the queue of patch-queue.py every call of withMediaQueue
\* eventually has its function run and its promise settled, provided every
\* started function settles, also with three or more calls pending and no
\* further call arriving.
C14_EveryCallSettles ==
  \A c \in Calls :
    (qPromise[c] = "pending") ~> (qPromise[c] \in Outcomes /\ qpc[c] = "done")

\* C15: for any list of extra LoRAs, with or without a face mask, the
\* workflow built is a well-formed graph: every node-input reference names
\* a node that exists, no node is overwritten (extra LoRA ids start at 14
\* and skip ids in use), the LoRAs form one chain 1 -> 4 -> extras in the
\* order given, and the KSampler's model input is the last of them.
RECURSIVE LoraChain(_, _)
LoraChain(wf, id) ==
  IF id \in DOMAIN wf /\ wf[id].class_type = "LoraLoaderModelOnly"
    THEN Append(LoraChain(wf, wf[id].refs.model), id)
    ELSE <<id>>

LiteralNodes ==
  IF wfInput.builder = "outpaint" THEN OutpaintNodes ELSE Img2ImgNodes

C15_WorkflowWellFormed ==
  wfInput.builder # "none" =>
    LET chain == LoraChain(workflow, workflow[9].refs.model)
        extras == wfInput.extra_loras
    IN /\ \A id \in DOMAIN workflow :
            \A name \in DOMAIN workflow[id].refs :
              workflow[id].refs[name] \in DOMAIN workflow
       /\ Cardinality(DOMAIN workflow)
            = Cardinality(DOMAIN LiteralNodes) + Len(extras)
                + (IF wfInput.mask THEN 2 ELSE 0)
       /\ \A id \in DOMAIN LiteralNodes :
            workflow[id].class_type = LiteralNodes[id].class_type
       /\ Len(chain) = Len(extras) + 2
       /\ chain[1] = 1
       /\ chain[2] = 4
       /\ \A k \in 1..Len(extras) :
            /\ chain[k + 2] >= 14
            /\ chain[k + 2] \notin DOMAIN LiteralNodes
            /\ workflow[chain[k + 2]].lora_name = extras[k]
            /\ chain[k + 2] > chain[k + 1]

\* An outpaint workflow with so many extra LoRAs that the ids from 14 on
\* run into node 20.
C15_Witness ==
  /\ wfInput.builder = "outpaint"
  /\ Len(wfInput.extra_loras) >= 7
  /\ 21 \in DOMAIN workflow

=========================================================================
